---- MODULE Spec2Model ----
(***************************************************************************)
(* Model of the two HuggingFace trainer classes of NLPScholar:             *)
(*   src/src/trainers/HFTextClassificationTrainer.py                       *)
(*   src/src/trainers/HFTokenClassificationTrainer.py                      *)
(*                                                                         *)
(* Two specifications:                                                     *)
(*   SpecFn  one call of a pure function (the two preprocess_function      *)
(*           variants and the token compute_metrics) on a bounded input;   *)
(*   Spec    the public methods train() and preprocess_dataset() of one    *)
(*           trainer object, call after call, with the position inside     *)
(*           train() as pc.                                                *)
(*                                                                         *)
(* The base class Trainer (constructor, set_dataset) and the libraries    *)
(* (tokenizer, datasets, transformers.Trainer, evaluate) are not part of   *)
(* these files: the tokenizer's word indices and the loaded dataset are    *)
(* inputs, the external trainer returns or raises.  Of a dataset the       *)
(* train and valid splits and the feature names are kept.                  *)
(*                                                                         *)
(* Encodings.  A label is a record [isInt, val, name]: isInt is Python's   *)
(* isinstance(label, int); val is the integer when isInt, name the string  *)
(* otherwise.  A word index of None is the integer None (-1); Python word  *)
(* indices start at 0, TLA+ sequences at 1, hence label[word_idx + 1].     *)
(***************************************************************************)
EXTENDS Integers, Sequences, FiniteSets, TLC

VARIABLES
    label2id,       \* self.Model.label2id: label name -> integer id
    call,           \* SpecFn: the function that was called ("none" before)
    args,           \* SpecFn: the argument of that call
    ret,            \* SpecFn: what the call did: effects, raised, value
    kind,           \* Spec: "text" or "token", the trainer class of the object
    verbose,        \* Spec: self.verbose
    dataset,        \* Spec: self.dataset
    data_collator,  \* Spec: self.data_collator
    pc,             \* Spec: position inside train()
    stages,         \* Spec: stages the current train() call has run, in order
    ncalls,         \* Spec: number of train() calls started
    tokenizations,  \* Spec: number of completed dataset.map(preprocess_function)
    handoff,        \* Spec: arguments of the latest transformers.Trainer(...)
    saved,          \* Spec: number of completed trainer.save_model()
    outcome,        \* Spec: how the latest call on the object ended
    ndirect,        \* Spec: number of preprocess_dataset() calls made from
                    \*       outside train()
    stderr          \* Spec: what was written to sys.stderr

fnVars == <<call, args, ret>>
trainVars == <<kind, verbose, dataset, data_collator, pc, stages, ncalls,
               tokenizations, handoff, saved, outcome, ndirect, stderr>>
vars == <<label2id, call, args, ret, kind, verbose, dataset, data_collator,
          pc, stages, ncalls, tokenizations, handoff, saved, outcome, ndirect,
          stderr>>

----------------------------------------------------------------------------
(* Bounds of the model *)

\* rows of a text-classification batch
MaxBatch == 3
\* sub-word tokens of a token-classification batch, all examples together
MaxTokens == 4
\* tagged words of a token-classification batch, all examples together
MaxWords == 2
\* batch x sequence positions of the arrays given to compute_metrics
MaxPositions == 4
\* train() calls on one trainer object
MaxTrainCalls == 2
\* rows of the train split of a loaded dataset
MaxRows == 1
\* preprocess_dataset() calls made from outside train()
MaxDirectCalls == 1

(* Program constants *)

\* the ignore sentinel
IgnoreLabel == -100
\* dataset.shuffle(seed=42)
ShuffleSeed == 42
\* word_idx is None
None == -1

Warning == "The labels must be ints. You can add mappings via id2label in the config\n"
KeyError == "KeyError"
IndexError == "IndexError"

----------------------------------------------------------------------------
(* Labels and the label mapping *)

IntLabel(v) == [isInt |-> TRUE, val |-> v, name |-> ""]
NameLabel(s) == [isInt |-> FALSE, val |-> 0, name |-> s]

\* isinstance(label, int)
IsInt(label) == label.isInt

\* the labels a dataset may carry: integers, and names
Labels == {IntLabel(1), IntLabel(3), NameLabel("B"), NameLabel("X")}
Tags == {IntLabel(1), NameLabel("B"), NameLabel("X")}

\* the mappings the model configuration may hold: "X" is unknown to the first
Label2IdChoices == { ("B" :> 2), ("B" :> 0) @@ ("X" :> 4) }

\* label in self.Model.label2id
Contains(l2i, label) == label.name \in DOMAIN l2i

----------------------------------------------------------------------------
(* HFTextClassificationTrainer.preprocess_function *)

\* what a call leaves when it raised: no batch
NoValue == <<>>

\* a plausible slip: an unknown name is warned about and given id 0
TextResolve_Default(l2i, label) ==
    IF ~IsInt(label)
    THEN IF Contains(l2i, label)
         THEN [effects |-> <<>>, raised |-> "none", id |-> l2i[label.name]]
         ELSE [effects |-> <<Warning>>, raised |-> "none", id |-> 0]
    ELSE [effects |-> <<>>, raised |-> "none", id |-> label.val]

\* a plausible slip: the isinstance test inverted, names pass through
TextResolve_Inverted(l2i, label) ==
    IF IsInt(label)
    THEN [effects |-> <<>>, raised |-> "none", id |-> 0]
    ELSE [effects |-> <<>>, raised |-> "none", id |-> label.val]

\* the body of the loop over examples['label']: the warning is written when
\* the name is no key, and the lookup is made whether or not it is
TextResolve(l2i, label) ==
    IF ~IsInt(label)
    THEN LET warned == IF ~Contains(l2i, label) THEN <<Warning>> ELSE <<>>
         IN  IF Contains(l2i, label)
             THEN [effects |-> warned, raised |-> "none", id |-> l2i[label.name]]
             ELSE [effects |-> Append(warned, KeyError), raised |-> KeyError, id |-> 0]
    ELSE [effects |-> <<>>, raised |-> "none", id |-> label.val]

\* for label in examples['label'], from the k-th on; st = [labels, effects, raised]
RECURSIVE TextLoop(_, _, _, _)
TextLoop(l2i, examples, k, st) ==
    IF k > Len(examples) \/ st.raised # "none" THEN st
    ELSE LET r == TextResolve(l2i, examples[k])
         IN  TextLoop(l2i, examples, k + 1,
                 IF r.raised # "none"
                 THEN [st EXCEPT !.effects = @ \o r.effects, !.raised = r.raised]
                 ELSE [st EXCEPT !.effects = @ \o r.effects,
                                 !.labels = Append(@, r.id)])

\* examples: the batch's 'label' column, one label per example.  The tokenizer
\* output is kept as the number of rows it tokenized.
TextPreprocess(l2i, examples) ==
    LET st == TextLoop(l2i, examples, 1,
                       [labels |-> <<>>, effects |-> <<>>, raised |-> "none"])
    IN  IF st.raised # "none"
        THEN [effects |-> st.effects, raised |-> st.raised, value |-> NoValue]
        ELSE [effects |-> st.effects, raised |-> "none",
              value |-> [input_ids |-> Len(examples), label |-> st.labels]]

----------------------------------------------------------------------------
(* HFTokenClassificationTrainer.preprocess_function *)

\* a plausible slip: the tag is used as it is, the mapping never consulted
TokenResolve_NoLookup(l2i, word_label) ==
    [effects |-> <<>>, raised |-> "none", id |-> word_label.val]

\* word_label = label[word_idx], resolved when it is no int
TokenResolve(l2i, word_label) ==
    IF ~IsInt(word_label)
    THEN LET warned == IF ~Contains(l2i, word_label) THEN <<Warning>> ELSE <<>>
         IN  IF Contains(l2i, word_label)
             THEN [effects |-> warned, raised |-> "none", id |-> l2i[word_label.name]]
             ELSE [effects |-> Append(warned, KeyError), raised |-> KeyError, id |-> 0]
    ELSE [effects |-> <<>>, raised |-> "none", id |-> word_label.val]

\* the first sub-word of a new word: label[word_idx] is read (IndexError when
\* the example has no such word) and resolved
LabelNewWord(l2i, label, word_idx, st) ==
    IF word_idx + 1 > Len(label)
    THEN [st EXCEPT !.effects = Append(@, IndexError), !.raised = IndexError]
    ELSE LET r == TokenResolve(l2i, label[word_idx + 1])
         IN  IF r.raised # "none"
             THEN [st EXCEPT !.effects = @ \o r.effects, !.raised = r.raised]
             ELSE [st EXCEPT !.effects = @ \o r.effects,
                             !.label_ids = Append(@, r.id),
                             !.previous_word_idx = word_idx]

\* a plausible slip: special tokens get no entry at all
AlignStep_DropSpecial(l2i, label, word_idx, st) ==
    IF word_idx = None
    THEN [st EXCEPT !.previous_word_idx = word_idx]
    ELSE IF word_idx # st.previous_word_idx
    THEN LabelNewWord(l2i, label, word_idx, st)
    ELSE [st EXCEPT !.label_ids = Append(@, IgnoreLabel),
                    !.previous_word_idx = word_idx]

\* a plausible slip: every piece of a word is labelled, not the first only
AlignStep_AllPieces(l2i, label, word_idx, st) ==
    IF word_idx = None
    THEN [st EXCEPT !.label_ids = Append(@, IgnoreLabel),
                    !.previous_word_idx = word_idx]
    ELSE LabelNewWord(l2i, label, word_idx, st)

\* a plausible slip: a special token leaves previous_word_idx as it was, so
\* a word after it with the index of the word before it counts as its piece
AlignStep_NoReset(l2i, label, word_idx, st) ==
    IF word_idx = None
    THEN [st EXCEPT !.label_ids = Append(@, IgnoreLabel)]
    ELSE IF word_idx # st.previous_word_idx
    THEN LabelNewWord(l2i, label, word_idx, st)
    ELSE [st EXCEPT !.label_ids = Append(@, IgnoreLabel),
                    !.previous_word_idx = word_idx]

\* the body of the loop over word_ids; st = [previous_word_idx, label_ids,
\* effects, raised]
AlignStep(l2i, label, word_idx, st) ==
    IF word_idx = None
    THEN [st EXCEPT !.label_ids = Append(@, IgnoreLabel),
                    !.previous_word_idx = word_idx]
    ELSE IF word_idx # st.previous_word_idx
    THEN LabelNewWord(l2i, label, word_idx, st)
    ELSE [st EXCEPT !.label_ids = Append(@, IgnoreLabel),
                    !.previous_word_idx = word_idx]

\* for word_idx in word_ids, from the k-th on
RECURSIVE AlignLoop(_, _, _, _, _)
AlignLoop(l2i, label, word_ids, k, st) ==
    IF k > Len(word_ids) \/ st.raised # "none" THEN st
    ELSE AlignLoop(l2i, label, word_ids, k + 1,
                   AlignStep(l2i, label, word_ids[k], st))

\* one example: previous_word_idx = None, label_ids = []
AlignExample(l2i, example) ==
    AlignLoop(l2i, example.tags, example.word_ids, 1,
              [previous_word_idx |-> None, label_ids |-> <<>>,
               effects |-> <<>>, raised |-> "none"])

\* for i, label in enumerate(examples[self.tagsLabel]), from the i-th on;
\* acc = [labels, effects, raised]
RECURSIVE ExamplesLoop(_, _, _, _)
ExamplesLoop(l2i, examples, i, acc) ==
    IF i > Len(examples) \/ acc.raised # "none" THEN acc
    ELSE LET st == AlignExample(l2i, examples[i])
         IN  ExamplesLoop(l2i, examples, i + 1,
                 IF st.raised # "none"
                 THEN [acc EXCEPT !.effects = @ \o st.effects, !.raised = st.raised]
                 ELSE [acc EXCEPT !.effects = @ \o st.effects,
                                  !.labels = Append(@, st.label_ids)])

\* examples: one record [tags, word_ids] per example: its tag column and the
\* word indices tokenized_inputs.word_ids(batch_index=i) gives for it
TokenPreprocess(l2i, examples) ==
    LET acc == ExamplesLoop(l2i, examples, 1,
                            [labels |-> <<>>, effects |-> <<>>, raised |-> "none"])
    IN  IF acc.raised # "none"
        THEN [effects |-> acc.effects, raised |-> acc.raised, value |-> NoValue]
        ELSE [effects |-> acc.effects, raised |-> "none",
              value |-> [word_ids |-> [i \in 1..Len(examples) |-> examples[i].word_ids],
                         labels |-> acc.labels]]

----------------------------------------------------------------------------
(* compute_metrics of the token-classification trainer *)

\* np.argmax over the last axis: the first index (from 0) of the largest logit
ArgMax(logits) ==
    (CHOOSE i \in 1..Len(logits) :
        /\ \A j \in 1..Len(logits) : logits[j] <= logits[i]
        /\ \A j \in 1..(i - 1) : logits[j] < logits[i]) - 1

Min(a, b) == IF a < b THEN a ELSE b

\* a plausible slip: the test on the reference dropped
KeepPosition_All(l) == TRUE

\* if l != -100
KeepPosition(l) == l # IgnoreLabel

\* for p, l in zip(prediction, label), from the k-th pair on
RECURSIVE RowLoop(_, _, _, _)
RowLoop(prediction, label, k, acc) ==
    IF k > Min(Len(prediction), Len(label)) THEN acc
    ELSE RowLoop(prediction, label, k + 1,
                 IF KeepPosition(label[k])
                 THEN [true_predictions |-> Append(acc.true_predictions, prediction[k]),
                       true_labels |-> Append(acc.true_labels, label[k])]
                 ELSE acc)

\* for prediction, label in zip(predictions, labels), from the r-th pair on
RECURSIVE BatchLoop(_, _, _, _)
BatchLoop(predictions, labels, r, acc) ==
    IF r > Min(Len(predictions), Len(labels)) THEN acc
    ELSE BatchLoop(predictions, labels, r + 1,
                   RowLoop(predictions[r], labels[r], 1, acc))

\* eval_pred = [predictions: batch x sequence x class logits,
\*              labels: batch x sequence references].
\* The value is the four calls made on the evaluate metrics, in order.
ComputeMetrics(eval_pred) ==
    LET predictions == [r \in 1..Len(eval_pred.predictions) |->
                          [k \in 1..Len(eval_pred.predictions[r]) |->
                              ArgMax(eval_pred.predictions[r][k])]]
        kept == BatchLoop(predictions, eval_pred.labels, 1,
                          [true_predictions |-> <<>>, true_labels |-> <<>>])
        Metric(name, average, zero_division) ==
            [metric |-> name, predictions |-> kept.true_predictions,
             references |-> kept.true_labels, average |-> average,
             zero_division |-> zero_division]
    IN  [effects |-> <<>>, raised |-> "none",
         value |-> << Metric("accuracy", "", ""),
                      Metric("precision", "weighted", "0"),
                      Metric("recall", "weighted", "0"),
                      Metric("f1", "weighted", "") >>]

----------------------------------------------------------------------------
(* Inputs of the pure functions *)

\* the 'label' column of a text batch
TextBatches == UNION { [1..n -> Labels] : n \in 0..MaxBatch }

\* None, or the index of a source word
WordIdxs(w) == {None} \cup (0..(w - 1))

\* m[1] + ... + m[k]
RECURSIVE SumTo(_, _)
SumTo(m, k) == IF k = 0 THEN 0 ELSE m[k] + SumTo(m, k - 1)

\* the sizes of k examples: at least lo and at most hi each, at most total
\* together
Sizes(k, lo, hi, total) == { m \in [1..k -> lo..hi] : SumTo(m, k) <= total }

\* the token batch of Len(ms) examples, example i with ms[i] tags and ns[i]
\* word indices, read off the tags and the word indices of the whole batch
TokenBatch(ms, ns, all_tags, all_word_ids) ==
    [i \in 1..Len(ms) |->
        [tags |-> [j \in 1..ms[i] |-> all_tags[SumTo(ms, i - 1) + j]],
         word_ids |-> [j \in 1..ns[i] |-> all_word_ids[SumTo(ns, i - 1) + j]]]]

\* the token batches with at most t tokens and w tagged words together, every
\* example with at least one word
TokBatches(t, w) ==
    UNION { UNION { { TokenBatch(sz[1], sz[2], all_tags, all_word_ids) :
                          all_tags \in [1..SumTo(sz[1], k) -> Tags],
                          all_word_ids \in [1..SumTo(sz[2], k) -> WordIdxs(w)] } :
                    sz \in Sizes(k, 1, w, w) \X Sizes(k, 0, t, t) } :
            k \in 0..w }

\* the logits of one position over two classes, and its reference
Logits == { <<1, 0>>, <<0, 1>>, <<1, 1>> }
References == { IgnoreLabel, 0, 1 }

\* (predictions, labels) arrays of the same batch x sequence shape
EvalPreds ==
    UNION { [predictions : [1..shape[1] -> [1..shape[2] -> Logits]],
             labels : [1..shape[1] -> [1..shape[2] -> References]]] :
            shape \in { sh \in (0..MaxPositions) \X (1..MaxPositions) :
                            sh[1] * sh[2] <= MaxPositions } }

----------------------------------------------------------------------------
(* SpecFn: one call of a pure function *)

NotCalled == [effects |-> <<>>, raised |-> "none", value |-> NoValue]

\* the trainer object as constructed, for the specification that never
\* calls train()
TrainIdle ==
    /\ kind = "text"
    /\ verbose = FALSE
    /\ dataset = [isNone |-> TRUE, train |-> <<>>, valid |-> <<>>,
                  features |-> {}, labels |-> <<>>, valid_labels |-> <<>>,
                  shuffles |-> <<>>]
    /\ data_collator = "absent"
    /\ pc = "idle"
    /\ stages = <<>>
    /\ ncalls = 0
    /\ tokenizations = 0
    /\ handoff = [made |-> FALSE]
    /\ saved = 0
    /\ outcome = "none"
    /\ ndirect = 0
    /\ stderr = <<>>

InitFn ==
    /\ label2id \in Label2IdChoices
    /\ call = "none"
    /\ args = <<>>
    /\ ret = NotCalled
    /\ TrainIdle

CallTextPreprocess ==
    /\ call = "none"
    /\ \E examples \in TextBatches :
          /\ call' = "text.preprocess_function"
          /\ args' = examples
          /\ ret' = TextPreprocess(label2id, examples)
    /\ UNCHANGED <<label2id, trainVars>>

CallTokenPreprocess ==
    /\ call = "none"
    /\ \E k \in 0..MaxWords :
       \E ms \in Sizes(k, 1, MaxWords, MaxWords) :
       \E ns \in Sizes(k, 0, MaxTokens, MaxTokens) :
       \E all_tags \in [1..SumTo(ms, k) -> Tags] :
       \E all_word_ids \in [1..SumTo(ns, k) -> WordIdxs(MaxWords)] :
       \E examples \in { TokenBatch(ms, ns, all_tags, all_word_ids) } :
          /\ call' = "token.preprocess_function"
          /\ args' = examples
          /\ ret' = TokenPreprocess(label2id, examples)
    /\ UNCHANGED <<label2id, trainVars>>

CallComputeMetrics ==
    /\ call = "none"
    /\ \E eval_pred \in EvalPreds :
          /\ call' = "token.compute_metrics"
          /\ args' = eval_pred
          /\ ret' = ComputeMetrics(eval_pred)
    /\ UNCHANGED <<label2id, trainVars>>

NextFn ==
    \/ CallTextPreprocess
    \/ CallTokenPreprocess
    \/ CallComputeMetrics

SpecFn == InitFn /\ [][NextFn]_vars

----------------------------------------------------------------------------
(* The dataset and the trainer object *)

\* self.dataset is None
NoDataset == [isNone |-> TRUE, train |-> <<>>, valid |-> <<>>,
              features |-> {}, labels |-> <<>>, valid_labels |-> <<>>,
              shuffles |-> <<>>]

NoHandoff == [made |-> FALSE]

RawFeatures(k) == IF k = "text" THEN {"text", "label"} ELSE {"tokens", "tags"}

\* the train split of a dataset as loaded: at least one row
TrainSplits(k) ==
    IF k = "text"
    THEN UNION { [1..n -> Labels] : n \in 1..MaxRows }
    ELSE TokBatches(MaxRows + 1, MaxRows) \ { <<>> }

\* self.Model.tokenizer(...) gives these columns
TokenizerFeatures == {"input_ids", "attention_mask"}

\* self.preprocess_function for trainer class k
PreprocessFunction(k, l2i, examples) ==
    IF k = "text" THEN TextPreprocess(l2i, examples)
    ELSE TokenPreprocess(l2i, examples)

\* the label column a mapped split carries: tokenized_inputs['label'] of the
\* text class replaces the 'label' column the function read, by integers;
\* the token class adds 'labels' and leaves 'tags' alone
MappedColumn(k, split, r) ==
    IF k = "text"
    THEN [i \in 1..Len(split) |-> IntLabel(r.value.label[i])]
    ELSE split

\* the label rows a mapped split has
MappedLabels(k, r) == IF k = "text" THEN r.value.label ELSE r.value.labels

\* self.dataset.map(self.preprocess_function, batched=True): every split of
\* the dataset is mapped, the train split and then the valid split, each as
\* one batch.  An exception of the function leaves self.dataset as it was.
\* rt and rv are what the function does on the train and the valid split.
MapSplits(k, d, rt, rv) ==
    IF rt.raised # "none"
    THEN [raised |-> rt.raised, effects |-> rt.effects, dataset |-> d]
    ELSE IF rv.raised # "none"
    THEN [raised |-> rv.raised, effects |-> rt.effects \o rv.effects,
          dataset |-> d]
    ELSE [raised |-> "none", effects |-> rt.effects \o rv.effects,
          dataset |-> [d EXCEPT
              !.features = @ \cup TokenizerFeatures
                             \cup (IF k = "text" THEN {"label"} ELSE {"labels"}),
              !.train = MappedColumn(k, d.train, rt),
              !.valid = MappedColumn(k, d.valid, rv),
              !.labels = MappedLabels(k, rt),
              !.valid_labels = MappedLabels(k, rv)]]

DatasetMap(k, l2i, d) ==
    MapSplits(k, d, PreprocessFunction(k, l2i, d.train),
                    PreprocessFunction(k, l2i, d.valid))

\* the valid split of a dataset as loaded: one row; of the token class, one
\* word that is one token
ValidSplits(k) ==
    IF k = "text"
    THEN { <<label>> : label \in Labels }
    ELSE { << [tags |-> <<tag>>, word_ids |-> <<0>>] >> : tag \in Tags }

RawDatasets(k) ==
    { [isNone |-> FALSE, train |-> b, valid |-> e, features |-> RawFeatures(k),
       labels |-> <<>>, valid_labels |-> <<>>, shuffles |-> <<>>] :
         b \in TrainSplits(k), e \in ValidSplits(k) }

\* set_dataset of the base class Trainer: what it can load is a raw dataset,
\* or one that was tokenized before it was stored
LoadableTable ==
    [k \in {"text", "token"}, l2i \in Label2IdChoices |->
        RawDatasets(k) \cup
        { DatasetMap(k, l2i, d).dataset :
            d \in { x \in RawDatasets(k) : DatasetMap(k, l2i, x).raised = "none" } }]

Loadable(k, l2i) == LoadableTable[k, l2i]

Tokenizing == "Tokenizing the dataset...\n"
Saving == "Saving final model to {self.modelfpath}...\n"

\* the writes a raised exception's effects leave on sys.stderr
IsWrite(effect) == effect = Warning
Writes(effects) == SelectSeq(effects, IsWrite)

\* HFTextClassificationTrainer.preprocess_dataset; fresh is what set_dataset
\* loads when self.dataset is None
TextPreprocessDataset(v, l2i, d, fresh) ==
    LET d0 == IF d.isNone THEN fresh ELSE d
        m == DatasetMap("text", l2i, d0)
        out == (IF v THEN <<Tokenizing>> ELSE <<>>) \o Writes(m.effects)
    IN  IF m.raised # "none"
        THEN [raised |-> m.raised, stderr |-> out, dataset |-> d0]
        ELSE [raised |-> "none", stderr |-> out, dataset |-> m.dataset,
              data_collator |-> "DataCollatorWithPadding"]

\* HFTokenClassificationTrainer.preprocess_dataset: it has no check of
\* self.dataset, so on None the line self.dataset.map(...) raises
\* AttributeError after the verbose write, and nothing is assigned
TokenPreprocessDataset(v, l2i, d) ==
    LET m == DatasetMap("token", l2i, d)
        out == (IF v THEN <<Tokenizing>> ELSE <<>>) \o Writes(m.effects)
    IN  IF d.isNone
        THEN [raised |-> "AttributeError",
              stderr |-> IF v THEN <<Tokenizing>> ELSE <<>>, dataset |-> d]
        ELSE IF m.raised # "none"
        THEN [raised |-> m.raised, stderr |-> out, dataset |-> d]
        ELSE [raised |-> "none", stderr |-> out, dataset |-> m.dataset,
              data_collator |-> "DataCollatorForTokenClassification"]

\* a plausible slip: the guard dropped, the dataset tokenized on every call
NeedsPreprocess_Always(d) == TRUE

\* 'input_ids' not in self.dataset['train'].features, of a dataset that is
\* set: train() reads it only after its check of self.dataset
NeedsPreprocess(d) == "input_ids" \notin d.features

\* self.dataset.shuffle(seed=42), of a dataset that is set
Shuffled(d) == [d EXCEPT !.shuffles = Append(@, ShuffleSeed)]

----------------------------------------------------------------------------
(* Spec: train() and preprocess_dataset(), call after call *)

\* what the base class leaves in self.data_collator: no such attribute
\* ("absent"), or a value of its own ("None")
InitialCollators == {"absent", "None"}

Init ==
    /\ label2id \in Label2IdChoices
    /\ call = "none"
    /\ args = <<>>
    /\ ret = NotCalled
    /\ kind \in {"text", "token"}
    /\ verbose \in BOOLEAN
    /\ dataset = NoDataset
    /\ data_collator \in InitialCollators
    /\ pc = "idle"
    /\ stages = <<>>
    /\ ncalls = 0
    /\ tokenizations = 0
    /\ handoff = NoHandoff
    /\ saved = 0
    /\ outcome = "none"
    /\ ndirect = 0
    /\ stderr = <<>>

fixed == <<label2id, call, args, ret, kind, verbose>>

\* preprocess_dataset() is called on the object from outside train(): the
\* whole method, with no guard of its own.  The text class loads the dataset
\* when it is None; the token class does not.
PreprocessDataset ==
    /\ pc = "idle"
    /\ ndirect < MaxDirectCalls
    /\ \E fresh \in (IF kind = "text" /\ dataset.isNone
                      THEN Loadable(kind, label2id) ELSE {dataset}) :
          \E r \in { IF kind = "text"
                      THEN TextPreprocessDataset(verbose, label2id, dataset, fresh)
                      ELSE TokenPreprocessDataset(verbose, label2id, dataset) } :
              /\ stderr' = stderr \o r.stderr
              /\ dataset' = r.dataset
              /\ IF r.raised # "none"
                 THEN /\ outcome' = r.raised
                      /\ UNCHANGED <<data_collator, tokenizations>>
                 ELSE /\ outcome' = "preprocessed"
                      /\ data_collator' = r.data_collator
                      /\ tokenizations' = tokenizations + 1
    /\ ndirect' = ndirect + 1
    /\ UNCHANGED <<fixed, pc, stages, ncalls, handoff, saved>>

\* train() is called
TrainBegin ==
    /\ pc = "idle"
    /\ ncalls < MaxTrainCalls
    /\ pc' = "at_dataset_check"
    /\ ncalls' = ncalls + 1
    /\ stages' = <<>>
    /\ outcome' = "running"
    /\ UNCHANGED <<fixed, ndirect, dataset, data_collator, tokenizations, handoff,
                   saved, stderr>>

\* if self.dataset is None: self.set_dataset()
EnsureDataset ==
    /\ pc = "at_dataset_check"
    /\ IF dataset.isNone
       THEN /\ \E d \in Loadable(kind, label2id) : dataset' = d
            /\ stages' = Append(stages, "load")
       ELSE UNCHANGED <<dataset, stages>>
    /\ pc' = "at_tokenized_check"
    /\ UNCHANGED <<fixed, ndirect, data_collator, ncalls, tokenizations, handoff,
                   saved, outcome, stderr>>

\* if 'input_ids' not in self.dataset['train'].features:
\*     self.preprocess_dataset()
EnsureTokenized ==
    /\ pc = "at_tokenized_check"
    /\ IF NeedsPreprocess(dataset)
       THEN \E fresh \in (IF dataset.isNone THEN Loadable(kind, label2id)
                            ELSE {dataset}) :
              \E r \in { IF kind = "text"
                          THEN TextPreprocessDataset(verbose, label2id, dataset, fresh)
                          ELSE TokenPreprocessDataset(verbose, label2id, dataset) } :
                  /\ stages' = Append(stages, "preprocess")
                  /\ stderr' = stderr \o r.stderr
                  /\ dataset' = r.dataset
                  /\ IF r.raised # "none"
                     THEN /\ pc' = "idle"
                          /\ outcome' = r.raised
                          /\ UNCHANGED <<data_collator, tokenizations>>
                     ELSE /\ pc' = "at_shuffle"
                          /\ data_collator' = r.data_collator
                          /\ tokenizations' = tokenizations + 1
                          /\ UNCHANGED outcome
       ELSE /\ pc' = "at_shuffle"
            /\ UNCHANGED <<stages, stderr, dataset, data_collator,
                           tokenizations, outcome>>
    /\ UNCHANGED <<fixed, ndirect, ncalls, handoff, saved>>

\* a plausible slip: the shuffle left out
ShuffleDataset_Skipped ==
    /\ pc = "at_shuffle"
    /\ pc' = "at_handoff"
    /\ UNCHANGED <<fixed, ndirect, dataset, stages, data_collator, ncalls,
                   tokenizations, handoff, saved, outcome, stderr>>

\* self.dataset = self.dataset.shuffle(seed=42)
ShuffleDataset ==
    /\ pc = "at_shuffle"
    /\ dataset' = Shuffled(dataset)
    /\ stages' = Append(stages, "shuffle")
    /\ pc' = "at_handoff"
    /\ UNCHANGED <<fixed, ndirect, data_collator, ncalls, tokenizations, handoff,
                   saved, outcome, stderr>>

\* trainer = transformers.Trainer(...); trainer.train() is entered.  Reading
\* self.data_collator raises AttributeError when the object has no such
\* attribute, and train() ends with it.
StartTraining ==
    /\ pc = "at_handoff"
    /\ IF data_collator = "absent"
       THEN /\ pc' = "idle"
            /\ outcome' = "AttributeError"
            /\ UNCHANGED <<handoff, stages>>
       ELSE /\ handoff' = [made |-> TRUE, status |-> "running",
                           train_dataset |-> dataset,
                           data_collator |-> data_collator,
                           compute_metrics |-> kind]
            /\ stages' = Append(stages, "train")
            /\ pc' = "in_trainer"
            /\ UNCHANGED outcome
    /\ UNCHANGED <<fixed, ndirect, dataset, data_collator, ncalls, tokenizations,
                   saved, stderr>>

\* trainer.train() returns
TrainerReturns ==
    /\ pc = "in_trainer"
    /\ handoff' = [handoff EXCEPT !.status = "returned"]
    /\ pc' = "at_save"
    /\ UNCHANGED <<fixed, ndirect, dataset, data_collator, stages, ncalls,
                   tokenizations, saved, outcome, stderr>>

\* trainer.train() raises: nothing catches it, train() ends with it
TrainerRaises ==
    /\ pc = "in_trainer"
    /\ handoff' = [handoff EXCEPT !.status = "raised"]
    /\ pc' = "idle"
    /\ outcome' = "TrainerError"
    /\ UNCHANGED <<fixed, ndirect, dataset, data_collator, stages, ncalls,
                   tokenizations, saved, stderr>>

\* if self.verbose: sys.stderr.write(...); trainer.save_model()
SaveModel ==
    /\ pc = "at_save"
    /\ stderr' = IF verbose THEN Append(stderr, Saving) ELSE stderr
    /\ saved' = saved + 1
    /\ stages' = Append(stages, "save")
    /\ pc' = "idle"
    /\ outcome' = "saved"
    /\ UNCHANGED <<fixed, ndirect, dataset, data_collator, ncalls, tokenizations,
                   handoff>>

Next ==
    \/ PreprocessDataset
    \/ TrainBegin
    \/ EnsureDataset
    \/ EnsureTokenized
    \/ ShuffleDataset
    \/ StartTraining
    \/ TrainerReturns
    \/ TrainerRaises
    \/ SaveModel

Spec == Init /\ [][Next]_vars

----------------------------------------------------------------------------
(* Claims about the pure functions, stated for SpecFn *)

TokenReturned == call = "token.preprocess_function" /\ ret.raised = "none"
TextReturned == call = "text.preprocess_function" /\ ret.raised = "none"

\* the integer id of a reference label: the label itself when it is an
\* integer, its image under the label-name-to-id mapping otherwise
ResolvedId(label) == IF label.isInt THEN label.val ELSE label2id[label.name]

\* position k of a word-index list is the first sub-word of a new word
FirstPiece(word_ids, k) ==
    /\ word_ids[k] # None
    /\ (k = 1 \/ word_ids[k] # word_ids[k - 1])

\* C1: the 'labels' field of the batch token preprocess_function returns
\* holds one label sequence per example, each as long as the example's
\* word-index list (its sub-word token count), not as its list of words.
C1_LabelsLength ==
    TokenReturned =>
        /\ Len(ret.value.labels) = Len(args)
        /\ \A i \in 1..Len(args) :
              Len(ret.value.labels[i]) = Len(args[i].word_ids)

\* two examples, one of them with more sub-word tokens than words
C1_Witness ==
    /\ TokenReturned
    /\ Len(args) = 2
    /\ \E i \in 1..Len(args) :
          /\ Len(args[i].word_ids) > Len(args[i].tags)
          /\ Len(ret.value.labels[i]) = Len(args[i].word_ids)

\* C2: a position with no source word index, and a position whose source
\* word index equals that of the position before it, is labelled -100.
C2_IgnoredPositions ==
    TokenReturned =>
        \A i \in 1..Len(args) :
            \A k \in 1..Len(args[i].word_ids) :
                (\/ args[i].word_ids[k] = None
                 \/ (k > 1 /\ args[i].word_ids[k] = args[i].word_ids[k - 1]))
                => ret.value.labels[i][k] = -100

\* a special token, then a word split in two pieces
C2_Witness ==
    /\ TokenReturned
    /\ \E i \in 1..Len(args) :
          /\ Len(args[i].word_ids) = 3
          /\ args[i].word_ids[1] = None
          /\ args[i].word_ids[2] = 0
          /\ args[i].word_ids[3] = 0
          /\ ret.value.labels[i][1] = -100
          /\ ret.value.labels[i][3] = -100

\* C3: the first sub-word of a new word is labelled with the resolved
\* integer id of that word's reference label.
C3_FirstPieceLabel ==
    TokenReturned =>
        \A i \in 1..Len(args) :
            \A k \in 1..Len(args[i].word_ids) :
                FirstPiece(args[i].word_ids, k)
                => ret.value.labels[i][k]
                       = ResolvedId(args[i].tags[args[i].word_ids[k] + 1])

\* a named tag and an integer tag, each resolved at the first piece of its word
C3_Witness ==
    /\ TokenReturned
    /\ \E i \in 1..Len(args) :
          /\ Len(args[i].tags) = 2
          /\ ~args[i].tags[1].isInt
          /\ args[i].tags[2].isInt
          /\ Len(args[i].word_ids) = 3
          /\ args[i].word_ids[1] = 0
          /\ args[i].word_ids[2] = 0
          /\ args[i].word_ids[3] = 1
          /\ ret.value.labels[i][1] = label2id[args[i].tags[1].name]
          /\ ret.value.labels[i][1] # args[i].tags[1].val
          /\ ret.value.labels[i][3] = args[i].tags[2].val

\* the row-major list of (arg-max prediction, reference) pairs of arrays of
\* one batch x sequence shape
PairsInOrder(eval_pred) ==
    LET N == Len(eval_pred.labels)
        L == IF N = 0 THEN 0 ELSE Len(eval_pred.labels[1])
    IN  [j \in 1..(N * L) |->
            << ArgMax(eval_pred.predictions[((j - 1) \div L) + 1][((j - 1) % L) + 1]),
               eval_pred.labels[((j - 1) \div L) + 1][((j - 1) % L) + 1] >>]

NotIgnored(pair) == pair[2] # -100

\* C4: the prediction and reference lists given to each of the four metrics
\* are parallel, hold no reference of -100, and are exactly the (arg-max
\* prediction, reference) pairs of the positions whose reference is not
\* -100, in batch-then-sequence order.
C4_MetricsSkipIgnored ==
    call = "token.compute_metrics" =>
        LET kept == SelectSeq(PairsInOrder(args), NotIgnored)
        IN  /\ Len(ret.value) = 4
            /\ \A m \in 1..Len(ret.value) :
                  /\ Len(ret.value[m].predictions) = Len(ret.value[m].references)
                  /\ Len(ret.value[m].references) = Len(kept)
                  /\ \A j \in 1..Len(kept) :
                        /\ ret.value[m].predictions[j] = kept[j][1]
                        /\ ret.value[m].references[j] = kept[j][2]
                  /\ \A j \in 1..Len(ret.value[m].references) :
                        ret.value[m].references[j] # -100

\* two rows of two positions, an ignored position in the middle: the kept
\* pairs are those of positions (1,1), (2,1), (2,2), in that order
C4_Witness ==
    /\ call = "token.compute_metrics"
    /\ Len(args.labels) = 2
    /\ args.labels[1] = <<0, -100>>
    /\ args.labels[2] = <<1, 0>>
    /\ args.predictions[1] = << <<0, 1>>, <<0, 1>> >>
    /\ args.predictions[2] = << <<1, 0>>, <<1, 1>> >>
    /\ ret.value[1].references = <<0, 1, 0>>
    /\ ret.value[1].predictions = <<1, 0, 0>>

\* the label column a text batch must come back with
TextLabelsAsClaimed ==
    TextReturned =>
        /\ Len(ret.value.label) = Len(args)
        /\ \A i \in 1..Len(args) : ret.value.label[i] = ResolvedId(args[i])

\* C5: text preprocess_function returns one label per input example, in
\* input order, an integer label unchanged and a name as its image under the
\* label mapping; the call changes no state of the trainer, the model or
\* the label mapping.
C5_TextLabels ==
    /\ []TextLabelsAsClaimed
    /\ [][call' = "text.preprocess_function"
            => UNCHANGED <<label2id, trainVars>>]_vars

\* three examples: a name, then two different integers
C5_Witness ==
    /\ TextReturned
    /\ Len(args) = 3
    /\ ~args[1].isInt
    /\ args[2].isInt /\ args[3].isInt /\ args[2].val # args[3].val
    /\ ret.value.label = << label2id[args[1].name], args[2].val, args[3].val >>
    /\ ret.value.label[1] # args[1].val

\* the label is a name the mapping has no key for
Unknown(label) == ~label.isInt /\ label.name \notin DOMAIN label2id

\* the call wrote the warning, then failed in the lookup, and returned nothing
WarnedThenFailed ==
    /\ ret.raised = "KeyError"
    /\ ret.effects = << Warning, "KeyError" >>
    /\ ret.value = NoValue

\* the positions at which token preprocess_function reads a tag
TagReads(example) ==
    { k \in 1..Len(example.word_ids) : FirstPiece(example.word_ids, k) }

\* C6: when a label that is no integer is not a key of the mapping, the
\* warning is written and the lookup is made all the same: the call ends in
\* the lookup failure, after the warning, and returns no batch and no
\* substitute label.  (Token variant: the labels looked up are those of the
\* words that have a first sub-word; an example that indexes a word it has
\* no tag for fails on that index instead.)
C6_UnknownLabelFails ==
    /\ call = "text.preprocess_function" =>
          /\ (\E i \in 1..Len(args) : Unknown(args[i])) => WarnedThenFailed
          /\ (\A i \in 1..Len(args) : ~Unknown(args[i])) =>
                 (ret.raised = "none" /\ ret.effects = <<>>)
    /\ call = "token.preprocess_function" =>
          /\ ( /\ \E i \in 1..Len(args) : \E k \in TagReads(args[i]) :
                     /\ args[i].word_ids[k] < Len(args[i].tags)
                     /\ Unknown(args[i].tags[args[i].word_ids[k] + 1])
               /\ \A i \in 1..Len(args) : \A k \in TagReads(args[i]) :
                     args[i].word_ids[k] < Len(args[i].tags) )
             => WarnedThenFailed
          /\ ret.raised = "KeyError" => WarnedThenFailed
          /\ (\E e \in 1..Len(ret.effects) : ret.effects[e] = Warning)
             => WarnedThenFailed

\* an unknown name after a label that resolved (text), and an unknown tag on
\* the second word of an example (token)
C6_WitnessText ==
    /\ call = "text.preprocess_function"
    /\ Len(args) = 2
    /\ ~Unknown(args[1]) /\ Unknown(args[2])
    /\ WarnedThenFailed

C6_WitnessToken ==
    /\ call = "token.preprocess_function"
    /\ Len(args) = 1
    /\ args[1].word_ids = <<None, 0, 1>>
    /\ Len(args[1].tags) = 2
    /\ ~Unknown(args[1].tags[1]) /\ Unknown(args[1].tags[2])
    /\ WarnedThenFailed

\* positions a..b of a word-index list are the sub-word tokens of one source
\* word: a maximal run of one word index.  The tokenizer numbers the words
\* of the text and of the paired text from 0 each, so two runs with the same
\* index on the two sides of a special token are two source words.
WordRun(word_ids, a, b) ==
    /\ a <= b
    /\ word_ids[a] # None
    /\ \A k \in a..b : word_ids[k] = word_ids[a]
    /\ (a = 1 \/ word_ids[a - 1] # word_ids[a])
    /\ (b = Len(word_ids) \/ word_ids[b + 1] # word_ids[b])

\* C10: for every word-index sequence, those with a special token between
\* two runs of word indices (paired text) included, each source word with a
\* sub-word token has exactly one position that is not -100, its first
\* sub-word, and every other position of the example is -100.
C10_OneLabelPerWord ==
    TokenReturned =>
        \A i \in 1..Len(args) :
            LET word_ids == args[i].word_ids
                labelled == { k \in 1..Len(word_ids) :
                                 ret.value.labels[i][k] # -100 }
            IN  /\ \A a \in 1..Len(word_ids) : \A b \in a..Len(word_ids) :
                      WordRun(word_ids, a, b)
                          => labelled \cap (a..b) = {a}
                /\ \A k \in labelled : word_ids[k] # None

\* paired text: a word of two pieces, the separator, and the first word of
\* the paired text, which has word index 0 again
C10_Witness ==
    /\ TokenReturned
    /\ \E i \in 1..Len(args) :
          /\ args[i].word_ids = <<0, 0, None, 0>>
          /\ ret.value.labels[i][1] # -100
          /\ ret.value.labels[i][2] = -100
          /\ ret.value.labels[i][3] = -100
          /\ ret.value.labels[i][4] # -100

----------------------------------------------------------------------------
(* Claims about train(), stated for Spec *)

Has(stage) == \E i \in 1..Len(stages) : stages[i] = stage

\* the step appends this stage to the stages of the running call
Runs(stage) == stages' = Append(stages, stage)

\* C7: over any sequence of train() calls on one trainer object the dataset
\* is tokenized at most once: train() runs preprocess_dataset only when the
\* train split does not expose 'input_ids'.  A sequence of train() calls is
\* a behaviour with no preprocess_dataset() call from outside train()
\* (ndirect = 0); with such calls in between, the train() calls still add at
\* most one tokenization to the ones those calls make.
C7_TokenizedAtMostOnce ==
    /\ [](ndirect = 0 => tokenizations <= 1)
    /\ [](tokenizations <= ndirect + 1)
    /\ [][Runs("preprocess") => "input_ids" \notin dataset.features]_vars

\* a second train() call reaches the external trainer without tokenizing
\* again the dataset the first call tokenized
C7_Witness ==
    /\ ncalls = 2
    /\ ndirect = 0
    /\ tokenizations = 1
    /\ pc = "in_trainer"
    /\ ~Has("preprocess")
    /\ "input_ids" \in dataset.features

StageRank(stage) ==
    CASE stage = "load" -> 1
      [] stage = "preprocess" -> 2
      [] stage = "shuffle" -> 3
      [] stage = "train" -> 4
      [] stage = "save" -> 5

\* what holds of every state of a train() call
StagesInOrder ==
    /\ \A i \in 1..Len(stages) : \A j \in 1..Len(stages) :
          i < j => StageRank(stages[i]) < StageRank(stages[j])
    /\ Has("train") =>
          /\ Has("shuffle")
          /\ handoff.made
          /\ ~handoff.train_dataset.isNone
          /\ "input_ids" \in handoff.train_dataset.features
          /\ Len(handoff.train_dataset.shuffles) >= 1
          /\ handoff.train_dataset.shuffles[Len(handoff.train_dataset.shuffles)] = 42
          /\ pc \in {"in_trainer", "at_save"} => handoff.train_dataset = dataset
    /\ Has("save") => (Has("train") /\ handoff.status = "returned")

\* C8: a train() call runs its stages in one fixed order with no step back:
\* the dataset is loaded only if it is unset, preprocessed only if it is not
\* tokenized, then shuffled with seed 42, then training is delegated, then
\* the model is saved; training never starts on a dataset that is unset,
\* untokenized or unshuffled, and the model is saved only after the
\* delegated training has returned.
C8_StagesInOrder ==
    /\ []StagesInOrder
    /\ [][ /\ Runs("load") => dataset.isNone
           /\ Runs("preprocess") => "input_ids" \notin dataset.features
           /\ Runs("shuffle") =>
                 (dataset'.shuffles = Append(dataset.shuffles, 42)
                  /\ ~Has("train"))
           /\ Runs("train") =>
                 (Has("shuffle") /\ ~dataset.isNone
                  /\ "input_ids" \in dataset.features)
           /\ Runs("save") => (handoff.made /\ handoff.status = "returned")
         ]_vars

\* a call that ran all five stages, in order, and saved the model
C8_Witness ==
    /\ stages = <<"load", "preprocess", "shuffle", "train", "save">>
    /\ outcome = "saved"
    /\ saved = 1

\* the collator preprocess_dataset of trainer class k assigns
CollatorOf(k) ==
    IF k = "text" THEN "DataCollatorWithPadding"
    ELSE "DataCollatorForTokenClassification"

\* C9 (as claimed): whenever train() hands the datasets to the external
\* trainer, the data collator it passes is the one the trainer's own
\* preprocess_dataset assigns, on every path through train().
C9_CollatorAssigned ==
    handoff.made => handoff.data_collator = CollatorOf(kind)

====
